---- MODULE Spec2Model ----
(***************************************************************************)
(* rtsp-simple-proxy: the stream fan-out engine.                           *)
(*                                                                         *)
(* The model covers the bootstrap of newProgram (flags, environment and    *)
(* the checks of the configuration), the program value (clients, streams,  *)
(* the RWMutex), the lifecycle supervisor started by newProgram,           *)
(* program.forwardTrack and a stream UDP listener (start, run, close).     *)
(* The client sessions, the                                                *)
(* upstream sessions and the writer tasks of the endpoints are not part of *)
(* the two source files; they are modelled from the design document and    *)
(* are marked as such where they are defined.                              *)
(***************************************************************************)
EXTENDS Integers, Sequences, FiniteSets, TLC

\* ------------------------------------------------------------- bounds
\* Number of client connections that can exist at the same time.
NumClients == 2
\* Number of stream UDP listeners.
NumListeners == 2
\* The clock runs from 0 to MaxTime seconds.
MaxTime == 3
\* conf.StreamTTL is drawn from 1..MaxTTL seconds.
MaxTTL == 2
\* Datagrams read by one listener.
MaxPkts == 2
\* Longest datagram, in bytes.
MaxLen == 1
\* Capacity of a writer queue (chanWrite).
QueueCap == 2
\* Highest track id a stream delivers.
MaxTrack == 1
\* Calls of close() on one listener.
MaxClose == 2

\* ---------------------------------------------------------- constants
\* buf := make([]byte, 2048)
BufSize == 2048
\* t := time.NewTicker(1 * time.Second), in seconds
TickPeriod == 1

\* Default("8554"), Default("8050"), Default("8051"): the ports of the flags
DefaultRtspPort == 8554
DefaultRtpPort == 8050
DefaultRtcpPort == 8051
\* Default("10s"), in seconds: stream-ready-timeout and stream-ttl
DefaultStreamReadyTimeout == 10
DefaultStreamTTL == 10
\* time.Second, in the unit of the clock
Second == 1

_TRACK_FLOW_RTP == "rtp"
_TRACK_FLOW_RTCP == "rtcp"
_STREAM_PROTOCOL_UDP == "udp"
_STREAM_PROTOCOL_TCP == "tcp"
_UDPL_STATE_STARTING == "STARTING"
_UDPL_STATE_RUNNING == "RUNNING"

_CLIENT_STATE_PLAY == "PLAY"

Clients == 1..NumClients
Listeners == 1..NumListeners
Paths == {"cam1", "cam2"}
TrackIds == 0..MaxTrack
Flows == {_TRACK_FLOW_RTP, _TRACK_FLOW_RTCP}
Protocols == {_STREAM_PROTOCOL_UDP, _STREAM_PROTOCOL_TCP}
Bytes == {170, 187}
\* The path whose stream the partial specifications follow (its listener in
\* SpecForward, its lifecycle in SpecSupervisor); the paths are interchangeable.
FollowedPaths == {"cam1"}
\* The listener the forwarding specification follows.
ForwardListeners == {1}

\* Client session states; NONE is a connection slot that holds no session.
\* A session that tears down is unregistered in the same step, so teardown is NONE.
ClientStates == {"NONE", "INIT", "DESCRIBED", "SETUP", _CLIENT_STATE_PLAY}

Min(a, b) == IF a <= b THEN a ELSE b
Max(a, b) == IF a >= b THEN a ELSE b

\* All byte strings of length 1..n.
RECURSIVE Datagrams(_)
Datagrams(n) ==
    IF n = 0 THEN {}
    ELSE Datagrams(n - 1) \cup [1..n -> Bytes]

VARIABLES
    now,                    \* wall clock, seconds
    tickPending,            \* a tick waits in the ticker's channel t.C
    sup,                    \* the supervisor goroutine: "idle" or "locking"
    panicked,               \* the process died of a run-time panic
    conf,                   \* p.conf, the validated configuration
    boot,                   \* the bootstrap: environment, flags, outcome
    clients,                \* p.clients, with every session's fields
    streams,                \* p.streams
    streamsClientLastTime,  \* the supervisor's local map
    readers,                \* listeners holding p.mutex.RLock
    listeners,              \* the stream UDP listeners
    heap,                   \* the byte buffers made by the listeners
    rtplChan,               \* p.rtpl.chanWrite
    rtcplChan,              \* p.rtcpl.chanWrite
    cliChan                 \* c.chanWrite of every client

vars == <<now, tickPending, sup, panicked, conf, boot, clients, streams,
          streamsClientLastTime, readers, listeners, heap, rtplChan, rtcplChan,
          cliChan>>

\* ------------------------------------------------------------ values
\* "No time": the zero value of an absent map entry.
NoTime == 0 - 1
\* Keys of streamsClientLastTime: c.path of a session that has not described is "".
PathKeys == Paths \cup {""}
\* One buffer per datagram that is still referenced.
BufIds == 1..(NumListeners * MaxPkts)

NoClient ==
    [state |-> "NONE", path |-> "", streamProtocol |-> _STREAM_PROTOCOL_UDP,
     streamTracks |-> <<>>]
\* A stream: whether it is in p.streams (exists), its creation time and its
\* stop channel ("open", "closed", or "panic" once a closed channel was closed
\* again).  A stream object the supervisor has taken out of the map keeps its
\* fields; one that has torn down by itself is gone.  History: idleSince is the
\* moment since when it has no subscriber (no client in PLAY), lastClient the
\* last moment a client that is gone was attached to its path.
NoStream ==
    [exists |-> FALSE, created |-> NoTime, stop |-> "open", idleSince |-> NoTime,
     lastClient |-> NoTime]
\* A listener: its fields, the position pc of its run task ("read", "rlock",
\* "fwd", "send", "stamp" between the release of p.mutex and the write of
\* lastFrameTime, "unwind" when a panic has started inside forwardTrack, then
\* "done" in the deferred send on chanDone and "exited" after it) and the
\* datagram in hand.  panicking tells that the run task is unwinding a panic.
\* seq counts the datagrams read and addr is the source of the last one.
\* closeCalls counts the calls of close(), closeRunning those that found the
\* listener started, closeWait those that wait on chanDone.
NoListener ==
    [state |-> _UDPL_STATE_STARTING, path |-> "", trackId |-> 0,
     flow |-> _TRACK_FLOW_RTP, pc |-> "read", buf |-> 0, n |-> 0, todo |-> {},
     cur |-> 0, seq |-> 0, dgram |-> <<>>, sent |-> [c \in Clients |-> 0],
     lastFrameTime |-> NoTime, addr |-> <<>>, nconn |-> "open", closeCalls |-> 0,
     closeRunning |-> 0, closeWait |-> 0, panicking |-> FALSE]

\* The remote address of a client connection.
ClientIp(c) == c
\* Source address of the publisher a listener accepts, and the other sources.
PublisherIp == "origin"
PublisherPort == 5000
SrcIps == {PublisherIp, "stranger"}
SrcPorts == {PublisherPort, PublisherPort + 2}

Connected == {c \in Clients : clients[c].state # "NONE"}
ClientsOn(k) == {c \in Connected : clients[c].path = k}
PlayingOn(k) == {c \in ClientsOn(k) : clients[c].state = _CLIENT_STATE_PLAY}

\* Variant of WriteLockFree: Lock() does not wait for the readers.
WriteLockAlways == TRUE

\* p.mutex: a writer gets the lock when no reader holds it; the only task that
\* waits for the write lock across steps is the supervisor, and a waiting writer
\* keeps new readers out (sync.RWMutex).
WriteLockFree == readers = {}
ReadLockFree == sup # "locking"

\* ------------------------------------------------------ the bootstrap
\* A string of the protocol list is a sequence of atoms: the words "udp",
\* "tcp", "rtp" and the separator ",".  Words that follow each other without a
\* separator make one longer word.  An optional value is <<>> when it is not
\* given and <<v>> when it is v; an environment variable that is empty counts
\* as not set.
DefaultProtocols == <<"tcp", ",", "udp">>

\* The inputs of a run: the environment and the command line.
EnvProtocols == {<<>>, <<"udp">>, <<"tcp", ",", "udp">>, <<"rtp">>}
EnvRtspPorts == {<<>>, <<554>>}
EnvRtpPorts == {<<>>, <<9000>>, <<9001>>}
EnvRtcpPorts == {<<>>, <<9001>>, <<9003>>}
FlagProtocols == {<<>>, << <<>> >>, << <<"udp", ",">> >>, << <<"tcp">> >>}
FlagRtspPorts == {<<>>}
FlagRtpPorts == {<<>>, <<0>>, <<7000>>}
FlagRtcpPorts == {<<>>, <<7001>>}
FlagTimeouts == {<<>>, <<0>>, <<1>>}
FlagTTLs == {<<>>} \cup {<<t>> : t \in 0..MaxTTL}

Environments ==
    [PROTOCOLS : EnvProtocols, RTSP_PORT : EnvRtspPorts, RTP_PORT : EnvRtpPorts,
     RTCP_PORT : EnvRtcpPorts]
CommandLines ==
    [protocols : FlagProtocols, rtspPort : FlagRtspPorts, rtpPort : FlagRtpPorts,
     rtcpPort : FlagRtcpPorts, streamReadyTimeout : FlagTimeouts,
     streamTTL : FlagTTLs]
NoFlags ==
    [protocols |-> <<>>, rtspPort |-> <<>>, rtpPort |-> <<>>, rtcpPort |-> <<>>,
     streamReadyTimeout |-> <<>>, streamTTL |-> <<>>]
NoEnv == [PROTOCOLS |-> <<>>, RTSP_PORT |-> <<>>, RTP_PORT |-> <<>>, RTCP_PORT |-> <<>>]

\* The zero value of conf, and the values kingpin.Parse leaves in the pointers.
NoConf ==
    [Protocols |-> <<>>, RtspPort |-> 0, RtpPort |-> 0, RtcpPort |-> 0,
     StreamReadyTimeout |-> 0, StreamTTL |-> 0]
NoParsed ==
    [protocolsStr |-> <<>>, rtspPort |-> 0, rtpPort |-> 0, rtcpPort |-> 0,
     streamReadyTimeout |-> 0, streamTTL |-> 0]

\* The value of a flag: the command line, else the environment variable of the
\* flag when it is set, else the default.
FlagValue(flag, envar, default) ==
    IF flag # <<>> THEN flag[1]
    ELSE IF envar # <<>> THEN envar[1]
    ELSE default

\* The same for the string flag, whose environment variable holds the string itself.
StringFlagValue(flag, envar, default) ==
    IF flag # <<>> THEN flag[1]
    ELSE IF envar # <<>> THEN envar
    ELSE default

\* kingpin.Flag(...).Default(...).Envar(...) of the six flags, then kingpin.Parse().
Flags(env, flags) ==
    [protocolsStr |->
        StringFlagValue(flags.protocols, env.PROTOCOLS, DefaultProtocols),
     rtspPort |-> FlagValue(flags.rtspPort, env.RTSP_PORT, DefaultRtspPort),
     rtpPort |-> FlagValue(flags.rtpPort, env.RTP_PORT, DefaultRtpPort),
     rtcpPort |-> FlagValue(flags.rtcpPort, env.RTP_PORT, DefaultRtcpPort),
     streamReadyTimeout |->
        FlagValue(flags.streamReadyTimeout, <<>>, DefaultStreamReadyTimeout),
     streamTTL |-> FlagValue(flags.streamTTL, <<>>, DefaultStreamTTL)]

\* strings.Split(s, ","): the fields between the separators; a string without
\* separator, the empty one too, is one field.
RECURSIVE Split(_)
Split(s) ==
    IF \A i \in 1..Len(s) : s[i] # ","
    THEN <<s>>
    ELSE LET i == CHOOSE j \in 1..Len(s) :
                     s[j] = "," /\ \A h \in 1..(j - 1) : s[h] # ","
         IN  <<SubSeq(s, 1, i - 1)>> \o Split(SubSeq(s, i + 1, Len(s)))

\* conf := &conf{...}
MakeConf(parsed) ==
    [Protocols |-> Split(parsed.protocolsStr),
     RtspPort |-> parsed.rtspPort,
     RtpPort |-> parsed.rtpPort,
     RtcpPort |-> parsed.rtcpPort,
     StreamReadyTimeout |-> parsed.streamReadyTimeout,
     StreamTTL |-> parsed.streamTTL]

\* Variant of RtcpFollowsRtp: any port above the RTP port is taken.
RtcpAboveRtp(c) == c.RtcpPort > c.RtpPort

\* conf.RtcpPort != (conf.RtpPort + 1) is the error
RtcpFollowsRtp(c) == c.RtcpPort = c.RtpPort + 1

\* switch proto: the protocol a field of the list names, "" for the default case.
ProtocolOf(field) ==
    IF field = <<"udp">> THEN _STREAM_PROTOCOL_UDP
    ELSE IF field = <<"tcp">> THEN _STREAM_PROTOCOL_TCP
    ELSE ""

\* The protocols map the loop builds when no field is unsupported.
ProtocolSet(c) == {ProtocolOf(c.Protocols[i]) : i \in 1..Len(c.Protocols)}

\* The checks of newProgram in their order: the error of the first one that
\* fails, "" when the configuration is accepted.
Validate(c) ==
    IF c.RtspPort = 0 THEN "rtsp port not provided"
    ELSE IF c.RtpPort = 0 THEN "rtp port not provided"
    ELSE IF c.RtcpPort = 0 THEN "rtcp port not provided"
    ELSE IF (c.RtpPort % 2) # 0 THEN "rtp port must be even"
    ELSE IF ~RtcpFollowsRtp(c) THEN "rtcp port must be rtp port plus 1"
    ELSE IF c.StreamReadyTimeout < Second THEN "too small stream ready timeout"
    ELSE IF c.StreamTTL < Second THEN "too small stream TTL"
    ELSE IF "" \in ProtocolSet(c) THEN "unsupported protocol"
    ELSE IF ProtocolSet(c) = {} THEN "no protocols provided"
    ELSE ""

\* The bootstrap of a program that runs: pc is "args" before kingpin.Parse,
\* "parsed" after it, "running" once newProgram has returned the program and
\* "error" once it has returned an error.
Booted(env, flags) ==
    [pc |-> "running", env |-> env, flags |-> flags, parsed |-> Flags(env, flags),
     err |-> "", protocols |-> ProtocolSet(MakeConf(Flags(env, flags)))]

\* --------------------------------------------------------------- init
Init ==
    /\ now = 0
    /\ tickPending = FALSE
    /\ sup = "idle"
    /\ panicked = FALSE
    /\ \E t \in 1..MaxTTL :
          LET flags == [NoFlags EXCEPT !.streamTTL = <<t>>]
          IN  /\ boot = Booted(NoEnv, flags)
              /\ conf = MakeConf(Flags(NoEnv, flags))
    /\ clients = [c \in Clients |-> NoClient]
    /\ streams = [k \in Paths |-> NoStream]
    /\ streamsClientLastTime = [k \in PathKeys |-> NoTime]
    /\ readers = {}
    /\ listeners = [l \in Listeners |-> NoListener]
    /\ heap = [b \in BufIds |-> <<>>]
    /\ rtplChan = <<>>
    /\ rtcplChan = <<>>
    /\ cliChan = [c \in Clients |-> <<>>]

\* kingpin.Parse(): the six flags get their values.
kingpinParse ==
    /\ boot.pc = "args"
    /\ boot' = [boot EXCEPT !.pc = "parsed", !.parsed = Flags(boot.env, boot.flags)]
    /\ UNCHANGED <<now, tickPending, sup, panicked, conf, clients, streams,
                   streamsClientLastTime, readers, listeners, heap, rtplChan,
                   rtcplChan, cliChan>>

\* newProgram after the parse: the configuration is checked; it becomes p.conf
\* and p.protocols of the program, or newProgram returns the error.
newProgram ==
    /\ boot.pc = "parsed"
    /\ LET c == MakeConf(boot.parsed)
           err == Validate(c)
       IN  IF err = ""
           THEN /\ conf' = c
                /\ boot' = [boot EXCEPT !.pc = "running", !.protocols = ProtocolSet(c)]
           ELSE /\ boot' = [boot EXCEPT !.pc = "error", !.err = err]
                /\ UNCHANGED conf
    /\ UNCHANGED <<now, tickPending, sup, panicked, clients, streams,
                   streamsClientLastTime, readers, listeners, heap, rtplChan,
                   rtcplChan, cliChan>>

\* The state before main calls newProgram, for every environment and command line.
InitBoot ==
    /\ now = 0
    /\ tickPending = FALSE
    /\ sup = "idle"
    /\ panicked = FALSE
    /\ conf = NoConf
    /\ \E env \in Environments, flags \in CommandLines :
          boot = [pc |-> "args", env |-> env, flags |-> flags, parsed |-> NoParsed,
                  err |-> "", protocols |-> {}]
    /\ clients = [c \in Clients |-> NoClient]
    /\ streams = [k \in Paths |-> NoStream]
    /\ streamsClientLastTime = [k \in PathKeys |-> NoTime]
    /\ readers = {}
    /\ listeners = [l \in Listeners |-> NoListener]
    /\ heap = [b \in BufIds |-> <<>>]
    /\ rtplChan = <<>>
    /\ rtcplChan = <<>>
    /\ cliChan = [c \in Clients |-> <<>>]

\* --------------------------------------------- the buffers of the heap
\* The buffers some queue entry or some listener still refers to.
Referenced(ls, rtp, rtcp, cli) ==
    {ls[l].buf : l \in Listeners}
        \cup {rtp[i].buf : i \in 1..Len(rtp)}
        \cup {rtcp[i].buf : i \in 1..Len(rtcp)}
        \cup UNION {{cli[c][i].buf : i \in 1..Len(cli[c])} : c \in Clients}

\* Garbage collection: a buffer nothing refers to is gone.
Collect(h, ls, rtp, rtcp, cli) ==
    [b \in BufIds |-> IF b \in Referenced(ls, rtp, rtcp, cli) THEN h[b] ELSE <<>>]

\* ---------------------------------- client sessions (design document)
\* History: the sessions cs leave the streams of their paths now.
Left(ss, cs) ==
    [k \in Paths |->
        IF ~ss[k].exists THEN ss[k]
        ELSE [ss[k] EXCEPT
                !.idleSince = IF cs \cap PlayingOn(k) # {} THEN now ELSE @,
                !.lastClient = IF cs \cap ClientsOn(k) # {} THEN now ELSE @]]

\* The sessions cs are unregistered: removed from p.clients, their queues dropped.
Unregister(cs) ==
    /\ clients' = [c \in Clients |-> IF c \in cs THEN NoClient ELSE clients[c]]
    /\ cliChan' = [c \in Clients |-> IF c \in cs THEN <<>> ELSE cliChan[c]]
    /\ heap' = Collect(heap, listeners, rtplChan, rtcplChan, cliChan')

\* A TCP connection is accepted: a session in its initial state joins p.clients.
Connect(c) ==
    /\ ~panicked
    /\ WriteLockFree
    /\ clients[c].state = "NONE"
    /\ clients' = [clients EXCEPT ![c] = [NoClient EXCEPT !.state = "INIT"]]
    /\ UNCHANGED <<now, tickPending, sup, panicked, conf, boot, streams,
                   streamsClientLastTime, readers, listeners, heap, rtplChan,
                   rtcplChan, cliChan>>

\* DESCRIBE(path): the session takes the path; the stream is created on demand.
Describe(c, k) ==
    /\ ~panicked
    /\ WriteLockFree
    /\ clients[c].state = "INIT"
    /\ clients' = [clients EXCEPT ![c].state = "DESCRIBED", ![c].path = k]
    /\ streams' =
         IF streams[k].exists THEN streams
         ELSE [streams EXCEPT ![k] =
                  [exists |-> TRUE, created |-> now, stop |-> "open",
                   idleSince |-> now, lastClient |-> now]]
    /\ UNCHANGED <<now, tickPending, sup, panicked, conf, boot,
                   streamsClientLastTime, readers, listeners, heap, rtplChan,
                   rtcplChan, cliChan>>

\* The ports a client declares in its SETUP of track i (client_port=X-Y); a
\* TCP session has none.
ClientPorts(c, proto, i) ==
    IF proto = _STREAM_PROTOCOL_UDP
    THEN [rtpPort |-> 40000 + 1000 * c + 2 * i,
          rtcpPort |-> 40000 + 1000 * c + 2 * i + 1]
    ELSE [rtpPort |-> 0, rtcpPort |-> 0]

\* SETUP(track, transport): the first SETUP pins the transport, every SETUP
\* appends the track binding.
Setup(c, proto) ==
    /\ ~panicked
    /\ WriteLockFree
    /\ clients[c].state \in {"DESCRIBED", "SETUP"}
    /\ clients[c].state = "SETUP" => proto = clients[c].streamProtocol
    /\ Len(clients[c].streamTracks) <= MaxTrack
    /\ clients' =
         [clients EXCEPT
            ![c].state = "SETUP",
            ![c].streamProtocol = proto,
            ![c].streamTracks =
                Append(@, ClientPorts(c, proto, Len(@)))]
    /\ UNCHANGED <<now, tickPending, sup, panicked, conf, boot, streams,
                   streamsClientLastTime, readers, listeners, heap, rtplChan,
                   rtcplChan, cliChan>>

\* PLAY: the session becomes a subscriber of its path.
Play(c) ==
    /\ ~panicked
    /\ WriteLockFree
    /\ clients[c].state = "SETUP"
    /\ clients' = [clients EXCEPT ![c].state = _CLIENT_STATE_PLAY]
    /\ UNCHANGED <<now, tickPending, sup, panicked, conf, boot, streams,
                   streamsClientLastTime, readers, listeners, heap, rtplChan,
                   rtcplChan, cliChan>>

\* TEARDOWN, a timeout or a parse error: the session is unregistered and closed.
Teardown(c) ==
    /\ ~panicked
    /\ WriteLockFree
    /\ clients[c].state # "NONE"
    /\ Unregister({c})
    /\ streams' = Left(streams, {c})
    /\ UNCHANGED <<now, tickPending, sup, panicked, conf, boot,
                   streamsClientLastTime, readers, listeners, rtplChan,
                   rtcplChan>>

\* ------------------------------------------- the stop signal of a stream
\* close(s.stop): closing a channel that is already closed is a run-time panic.
closeStop(s) ==
    IF s.stop = "open" THEN [s EXCEPT !.stop = "closed"]
    ELSE [s EXCEPT !.stop = "panic"]

\* Variant of retire: the entry leaves the map and the stop is not signalled.
retireSilently(s) == [s EXCEPT !.exists = FALSE]

\* close(s.stop); delete(p.streams, path): the stream object has left the map
\* with its stop channel closed.
retire(s) == [closeStop(s) EXCEPT !.exists = FALSE]

\* ------------------------------- upstream sessions (design document)
\* A fatal upstream error signals the stop of the stream.
UpstreamFail(k) ==
    /\ ~panicked
    /\ streams[k].exists
    /\ streams[k].stop = "open"
    /\ streams' = [streams EXCEPT ![k] = closeStop(@)]
    /\ UNCHANGED <<now, tickPending, sup, panicked, conf, boot, clients,
                   streamsClientLastTime, readers, listeners, heap, rtplChan,
                   rtcplChan, cliChan>>

\* The upstream task of a stopped stream that is still registered tears down:
\* it disconnects the clients of the path and marks the stream removed.
StreamTeardown(k) ==
    /\ ~panicked
    /\ WriteLockFree
    /\ streams[k].exists
    /\ streams[k].stop = "closed"
    /\ streams' = [streams EXCEPT ![k] = [NoStream EXCEPT !.stop = "closed"]]
    /\ Unregister(ClientsOn(k))
    /\ UNCHANGED <<now, tickPending, sup, panicked, conf, boot,
                   streamsClientLastTime, readers, listeners, rtplChan,
                   rtcplChan>>

\* ------------------------------------------------------ the supervisor
\* The supervisor has a step to take: a tick to receive, or the write lock to
\* take while no reader holds it.
SupRunnable ==
    \/ sup = "idle" /\ tickPending
    \/ sup = "locking" /\ WriteLockFree

\* A second passes and the ticker puts a tick in its channel (capacity one).
\* The steps of the supervisor take no time: a second passes only while the
\* supervisor waits, for the next tick or for the lock.
Tick ==
    /\ ~panicked
    /\ now < MaxTime
    /\ ~SupRunnable
    /\ now' = now + TickPeriod
    /\ tickPending' = TRUE
    /\ UNCHANGED <<sup, panicked, conf, boot, clients, streams,
                   streamsClientLastTime, readers, listeners, heap, rtplChan,
                   rtcplChan, cliChan>>

\* case <-t.C: p.mutex.Lock() is called.
SupWake ==
    /\ ~panicked
    /\ sup = "idle"
    /\ tickPending
    /\ tickPending' = FALSE
    /\ sup' = "locking"
    /\ UNCHANGED <<now, panicked, conf, boot, clients, streams,
                   streamsClientLastTime, readers, listeners, heap, rtplChan,
                   rtcplChan, cliChan>>

\* Variant of Stamp: only the paths of clients in PLAY are stamped.
StampSubscribers(lastTimes) ==
    [k \in PathKeys |-> IF PlayingOn(k) # {} THEN now ELSE lastTimes[k]]

\* for c := range p.clients { streamsClientLastTime[c.path] = time.Now() }
Stamp(lastTimes) ==
    [k \in PathKeys |-> IF ClientsOn(k) # {} THEN now ELSE lastTimes[k]]

\* time.Now().Sub(lastTime) >= conf.StreamTTL, for an entry of the map
Expired(lastTimes, k) ==
    /\ lastTimes[k] # NoTime
    /\ now - lastTimes[k] >= conf.StreamTTL

\* The entries of the second loop that reach close(s.stop).
ToStop(lastTimes) ==
    {k \in Paths : Expired(lastTimes, k) /\ streams[k].exists}

\* The entries of the second loop whose close(s.stop) panics: the stop
\* channel of the stream is closed already.
Failing(closing) == {k \in closing : closeStop(streams[k]).stop = "panic"}

\* The second loop has handled the entries done, each one close(s.stop),
\* delete(p.streams, path), delete(streamsClientLastTime, path).
Swept(done) ==
    [k \in Paths |-> IF k \in done THEN retire(streams[k]) ELSE streams[k]]
Dropped(lastTimes, done) ==
    [k \in PathKeys |-> IF k \in done THEN NoTime ELSE lastTimes[k]]

\* The sweep of one tick, under the write lock: the first loop stamps the
\* paths of the clients, the second handles the expired entries one after
\* the other, in the order of the map, which is any order.  When the close
\* of one entry panics, the entries that came before it in the order have
\* been handled and the ones after it are untouched; the process dies with
\* the lock held.
SupSweep ==
    /\ ~panicked
    /\ sup = "locking"
    /\ WriteLockFree
    /\ LET stamped == Stamp(streamsClientLastTime)
           closing == ToStop(stamped)
       IN  IF Failing(closing) # {}
           THEN \E bad \in Failing(closing) :
                   \E done \in SUBSET (closing \ Failing(closing)) :
                      /\ panicked' = TRUE
                      /\ streams' =
                           [Swept(done) EXCEPT ![bad] = closeStop(streams[bad])]
                      /\ streamsClientLastTime' = Dropped(stamped, done)
                      /\ UNCHANGED sup
           ELSE /\ streams' = Swept(closing)
                /\ streamsClientLastTime' = Dropped(stamped, closing)
                /\ sup' = "idle"
                /\ UNCHANGED panicked
    /\ UNCHANGED <<now, tickPending, conf, boot, clients, readers, listeners, heap,
                   rtplChan, rtcplChan, cliChan>>

\* ----------------------------------------------- stream UDP listeners
\* The upstream session of a stream binds a listener to a track flow of its path
\* and starts it: l.state = _UDPL_STATE_RUNNING; go l.run().
start(l, k, id, flow) ==
    /\ ~panicked
    /\ listeners[l].state = _UDPL_STATE_STARTING
    /\ streams[k].exists
    /\ listeners' =
         [listeners EXCEPT ![l].state = _UDPL_STATE_RUNNING, ![l].path = k,
                           ![l].trackId = id, ![l].flow = flow]
    /\ UNCHANGED <<now, tickPending, sup, panicked, conf, boot, clients, streams,
                   streamsClientLastTime, readers, heap, rtplChan, rtcplChan,
                   cliChan>>

\* Variant of NewBuf: one buffer per listener, made before the loop and used
\* for every read.
NewBufReused(l) == l

\* buf := make([]byte, 2048): a buffer nothing else refers to.
NewBuf(l) ==
    CHOOSE b \in BufIds :
        /\ b \notin Referenced(listeners, rtplChan, rtcplChan, cliChan)
        /\ \A a \in BufIds :
              a \notin Referenced(listeners, rtplChan, rtcplChan, cliChan) => b <= a

\* Variant of FromPublisher: the source port is not looked at.
FromPublisherIp(ip, port) == ip = PublisherIp

\* l.publisherIp.Equal(addr.IP) && addr.Port == l.publisherPort
FromPublisher(ip, port) == ip = PublisherIp /\ port = PublisherPort

\* n, addr, err := l.nconn.ReadFromUDP(buf) returned a datagram d from ip:port.
\* A datagram of another source is skipped (continue); one of the publisher is
\* kept as buf[:n] for forwardTrack.
readFromUDP(l, d, ip, port) ==
    /\ ~panicked
    /\ listeners[l].state = _UDPL_STATE_RUNNING
    /\ listeners[l].pc = "read"
    /\ listeners[l].nconn = "open"
    /\ listeners[l].seq < MaxPkts
    /\ LET b == NewBuf(l)
           n == Min(Len(d), BufSize)
       IN  IF ~FromPublisher(ip, port)
           THEN /\ listeners' =
                     [listeners EXCEPT ![l].seq = @ + 1, ![l].addr = <<ip, port>>]
                /\ UNCHANGED heap
           ELSE /\ listeners' =
                     [listeners EXCEPT ![l].pc = "rlock", ![l].buf = b, ![l].n = n,
                                       ![l].seq = @ + 1, ![l].dgram = d,
                                       ![l].addr = <<ip, port>>]
                /\ heap' = [heap EXCEPT ![b] = SubSeq(d, 1, n)]
    /\ UNCHANGED <<now, tickPending, sup, panicked, conf, boot, clients, streams,
                   streamsClientLastTime, readers, rtplChan, rtcplChan, cliChan>>

\* l.p.mutex.RLock(), then forwardTrack starts to range over p.clients.
RLock(l) ==
    /\ ~panicked
    /\ listeners[l].pc = "rlock"
    /\ ReadLockFree
    /\ readers' = readers \cup {l}
    /\ listeners' = [listeners EXCEPT ![l].pc = "fwd", ![l].todo = Connected]
    /\ UNCHANGED <<now, tickPending, sup, panicked, conf, boot, clients, streams,
                   streamsClientLastTime, heap, rtplChan, rtcplChan, cliChan>>

\* Variant of Subscribed: the state of the client is not looked at.
SubscribedAnyState(c, path) == clients[c].path = path

\* c.path == path && c.state == _CLIENT_STATE_PLAY
Subscribed(c, path) ==
    /\ clients[c].path = path
    /\ clients[c].state = _CLIENT_STATE_PLAY

\* c.streamTracks[id] is there
HasTrack(c, id) == id + 1 <= Len(clients[c].streamTracks)

\* The zero value of a track.
NoTrack == [rtpPort |-> 0, rtcpPort |-> 0]

\* c.streamTracks[id] when the lookup does not panic: the binding, or the zero
\* track where there is none.
Binding(c, id) ==
    IF HasTrack(c, id) THEN clients[c].streamTracks[id + 1] ELSE NoTrack

\* Variant of TrackPort: the two ports of the binding are taken for each other.
TrackPortSwapped(c, id, flow) ==
    IF flow = _TRACK_FLOW_RTP
    THEN Binding(c, id).rtcpPort
    ELSE Binding(c, id).rtpPort

\* c.streamTracks[id].rtpPort or .rtcpPort, by the flow
TrackPort(c, id, flow) ==
    IF flow = _TRACK_FLOW_RTP
    THEN Binding(c, id).rtpPort
    ELSE Binding(c, id).rtcpPort

\* The interleaved channel of a track flow.
trackToInterleavedChannel(id, flow) ==
    2 * id + (IF flow = _TRACK_FLOW_RTCP THEN 1 ELSE 0)

\* The frame argument of forwardTrack: the slice buf[:n] of listener l.
Frame(l) ==
    [buf |-> listeners[l].buf, n |-> listeners[l].n, src |-> l,
     seq |-> listeners[l].seq, orig |-> listeners[l].dgram]

\* &udpWrite{addr: &net.UDPAddr{IP: c.ip, Port: ...}, buf: frame}
udpWrite(c, id, flow, frame) ==
    [ip |-> ClientIp(c), port |-> TrackPort(c, id, flow), buf |-> frame.buf,
     n |-> frame.n, src |-> frame.src, seq |-> frame.seq, orig |-> frame.orig]

\* &gortsplib.InterleavedFrame{Channel: ..., Content: frame}
InterleavedFrame(id, flow, frame) ==
    [channel |-> trackToInterleavedChannel(id, flow), buf |-> frame.buf,
     n |-> frame.n, src |-> frame.src, seq |-> frame.seq, orig |-> frame.orig]

\* Variant of ChanSend: the entry jumps the queue.
ChanSendFront(q, x) == <<x>> \o q

\* ch <- x on a channel that has room
ChanSend(q, x) == Append(q, x)

\* The channel forwardTrack writes to for client c: the endpoint of the flow
\* for a UDP client, the client's own channel otherwise.
Target(c, flow) ==
    IF clients[c].streamProtocol = _STREAM_PROTOCOL_UDP
    THEN IF flow = _TRACK_FLOW_RTP THEN "rtpl" ELSE "rtcpl"
    ELSE "client"

TargetChan(c, flow) ==
    CASE Target(c, flow) = "rtpl" -> rtplChan
      [] Target(c, flow) = "rtcpl" -> rtcplChan
      [] OTHER -> cliChan[c]

\* A send on a full channel blocks.
HasRoom(q) == Len(q) < QueueCap

\* The send of forwardTrack for client c goes through.
Send(l, c) ==
    LET id == listeners[l].trackId
        flow == listeners[l].flow
    IN  CASE Target(c, flow) = "rtpl" ->
               /\ rtplChan' = ChanSend(rtplChan, udpWrite(c, id, flow, Frame(l)))
               /\ UNCHANGED <<rtcplChan, cliChan>>
          [] Target(c, flow) = "rtcpl" ->
               /\ rtcplChan' = ChanSend(rtcplChan, udpWrite(c, id, flow, Frame(l)))
               /\ UNCHANGED <<rtplChan, cliChan>>
          [] OTHER ->
               /\ cliChan' =
                    [cliChan EXCEPT
                       ![c] = ChanSend(@, InterleavedFrame(id, flow, Frame(l)))]
               /\ UNCHANGED <<rtplChan, rtcplChan>>

\* The lookup c.streamTracks[id] of a UDP client finds no binding.
MissingBinding(l, c) ==
    /\ Subscribed(c, listeners[l].path)
    /\ clients[c].streamProtocol = _STREAM_PROTOCOL_UDP
    /\ ~HasTrack(c, listeners[l].trackId)

\* The frame is handed to the channel of client c, or the send waits for room.
Enqueue(l, c) ==
    IF HasRoom(TargetChan(c, listeners[l].flow))
    THEN /\ Send(l, c)
         /\ listeners' =
              [listeners EXCEPT ![l].todo = @ \ {c}, ![l].sent[c] = @ + 1]
    ELSE /\ listeners' = [listeners EXCEPT ![l].pc = "send", ![l].cur = c]
         /\ UNCHANGED <<rtplChan, rtcplChan, cliChan>>

\* One iteration of the loop of forwardTrack, for client c.  The declaration
\* of streamTracks is not part of the source at hand: the lookup of a binding
\* that is not there starts a run-time panic in the run task (a slice, or a
\* map of pointers) or yields the zero track (a map of values).
forwardTrack(l, c) ==
    /\ ~panicked
    /\ listeners[l].pc = "fwd"
    /\ c \in listeners[l].todo
    /\ IF ~Subscribed(c, listeners[l].path)
       THEN /\ listeners' = [listeners EXCEPT ![l].todo = @ \ {c}]
            /\ UNCHANGED <<rtplChan, rtcplChan, cliChan>>
       ELSE IF MissingBinding(l, c)
       THEN \/ /\ listeners' =
                    [listeners EXCEPT ![l].pc = "unwind", ![l].panicking = TRUE]
               /\ UNCHANGED <<rtplChan, rtcplChan, cliChan>>
            \/ Enqueue(l, c)
       ELSE Enqueue(l, c)
    /\ UNCHANGED <<now, tickPending, sup, panicked, conf, boot, clients, streams,
                   streamsClientLastTime, readers, heap>>

\* A send that was blocked on a full channel goes through once there is room.
blockedSend(l) ==
    /\ ~panicked
    /\ listeners[l].pc = "send"
    /\ HasRoom(TargetChan(listeners[l].cur, listeners[l].flow))
    /\ Send(l, listeners[l].cur)
    /\ listeners' =
         [listeners EXCEPT ![l].pc = "fwd", ![l].todo = @ \ {listeners[l].cur},
                           ![l].sent[listeners[l].cur] = @ + 1, ![l].cur = 0]
    /\ UNCHANGED <<now, tickPending, sup, panicked, conf, boot, clients, streams,
                   streamsClientLastTime, readers, heap>>

\* defer l.p.mutex.RUnlock(): the deferred call of the first closure runs when
\* forwardTrack has returned, and the run task goes on to the second closure;
\* it runs as well while a panic of forwardTrack unwinds, and the run task goes
\* on to the deferred function of run, the send on chanDone.
RUnlock(l) ==
    /\ ~panicked
    /\ \/ listeners[l].pc = "fwd" /\ listeners[l].todo = {}
       \/ listeners[l].pc = "unwind"
    /\ readers' = readers \ {l}
    /\ listeners' =
         [listeners EXCEPT
            ![l].pc = IF listeners[l].panicking THEN "done" ELSE "stamp",
            ![l].sent = [c \in Clients |-> 0]]
    /\ UNCHANGED <<now, tickPending, sup, panicked, conf, boot, clients, streams,
                   streamsClientLastTime, heap, rtplChan, rtcplChan, cliChan>>

\* The second closure: l.mutex.Lock(); l.lastFrameTime = time.Now();
\* l.mutex.Unlock().  No other task of the source at hand takes l.mutex.  The
\* iteration ends and its buffer goes out of scope.
setLastFrameTime(l) ==
    /\ ~panicked
    /\ listeners[l].pc = "stamp"
    /\ listeners' =
         [listeners EXCEPT ![l].pc = "read", ![l].buf = 0, ![l].n = 0,
                           ![l].dgram = <<>>, ![l].lastFrameTime = now]
    /\ heap' = Collect(heap, listeners', rtplChan, rtcplChan, cliChan)
    /\ UNCHANGED <<now, tickPending, sup, panicked, conf, boot, clients, streams,
                   streamsClientLastTime, readers, rtplChan, rtcplChan, cliChan>>

\* ReadFromUDP returns an error, as it does once the socket is closed: run
\* returns and its deferred function starts to send on chanDone.
readError(l) ==
    /\ ~panicked
    /\ listeners[l].state = _UDPL_STATE_RUNNING
    /\ listeners[l].pc = "read"
    /\ listeners' = [listeners EXCEPT ![l].pc = "done"]
    /\ UNCHANGED <<now, tickPending, sup, panicked, conf, boot, clients, streams,
                   streamsClientLastTime, readers, heap, rtplChan, rtcplChan,
                   cliChan>>

\* Variant of MustWait: close() never waits for the run task.
MustWaitNever(l) == FALSE

\* if l.state == _UDPL_STATE_RUNNING { <-l.chanDone }
MustWait(l) == listeners[l].state = _UDPL_STATE_RUNNING

\* close() is called: l.nconn.Close(), then the call waits on chanDone if the
\* listener is started, and returns at once if it is not.
close(l) ==
    /\ ~panicked
    /\ listeners[l].closeCalls < MaxClose
    /\ listeners' =
         [listeners EXCEPT
            ![l].nconn = "closed",
            ![l].closeCalls = @ + 1,
            ![l].closeRunning =
                IF listeners[l].state = _UDPL_STATE_RUNNING THEN @ + 1 ELSE @,
            ![l].closeWait = IF MustWait(l) THEN @ + 1 ELSE @]
    /\ UNCHANGED <<now, tickPending, sup, panicked, conf, boot, clients, streams,
                   streamsClientLastTime, readers, heap, rtplChan, rtcplChan,
                   cliChan>>

\* l.chanDone <- struct{}{} meets <-l.chanDone of one waiting call of close():
\* the run task ends and that call returns.  The deferred function was the
\* last one of a run task that unwinds a panic: the panic ends the process.
chanDone(l) ==
    /\ ~panicked
    /\ listeners[l].pc = "done"
    /\ listeners[l].closeWait > 0
    /\ listeners' = [listeners EXCEPT ![l].pc = "exited", ![l].closeWait = @ - 1]
    /\ panicked' = listeners[l].panicking
    /\ UNCHANGED <<now, tickPending, sup, conf, boot, clients, streams,
                   streamsClientLastTime, readers, heap, rtplChan, rtcplChan,
                   cliChan>>

\* ------------------------------------- writer tasks (design document)
\* The writer task of the RTP endpoint takes the next entry of its queue.
rtplWriter ==
    /\ ~panicked
    /\ rtplChan # <<>>
    /\ rtplChan' = Tail(rtplChan)
    /\ heap' = Collect(heap, listeners, rtplChan', rtcplChan, cliChan)
    /\ UNCHANGED <<now, tickPending, sup, panicked, conf, boot, clients, streams,
                   streamsClientLastTime, readers, listeners, rtcplChan, cliChan>>

\* The writer task of the RTCP endpoint takes the next entry of its queue.
rtcplWriter ==
    /\ ~panicked
    /\ rtcplChan # <<>>
    /\ rtcplChan' = Tail(rtcplChan)
    /\ heap' = Collect(heap, listeners, rtplChan, rtcplChan', cliChan)
    /\ UNCHANGED <<now, tickPending, sup, panicked, conf, boot, clients, streams,
                   streamsClientLastTime, readers, listeners, rtplChan, cliChan>>

\* The writer task of a client session takes the next frame of its queue.
clientWriter(c) ==
    /\ ~panicked
    /\ cliChan[c] # <<>>
    /\ cliChan' = [cliChan EXCEPT ![c] = Tail(@)]
    /\ heap' = Collect(heap, listeners, rtplChan, rtcplChan, cliChan')
    /\ UNCHANGED <<now, tickPending, sup, panicked, conf, boot, clients, streams,
                   streamsClientLastTime, readers, listeners, rtplChan, rtcplChan>>

\* ------------------------------------------------------ specification
Next ==
    \/ kingpinParse
    \/ newProgram
    \/ \E c \in Clients : Connect(c)
    \/ \E c \in Clients, k \in Paths : Describe(c, k)
    \/ \E c \in Clients, proto \in Protocols : Setup(c, proto)
    \/ \E c \in Clients : Play(c)
    \/ \E c \in Clients : Teardown(c)
    \/ \E k \in Paths : UpstreamFail(k)
    \/ \E k \in Paths : StreamTeardown(k)
    \/ Tick
    \/ SupWake
    \/ SupSweep
    \/ \E l \in Listeners, k \in Paths, id \in TrackIds, flow \in Flows :
          start(l, k, id, flow)
    \/ \E l \in Listeners, d \in Datagrams(MaxLen), ip \in SrcIps, port \in SrcPorts :
          readFromUDP(l, d, ip, port)
    \/ \E l \in Listeners : RLock(l)
    \/ \E l \in Listeners, c \in Clients : forwardTrack(l, c)
    \/ \E l \in Listeners : blockedSend(l)
    \/ \E l \in Listeners : RUnlock(l)
    \/ \E l \in Listeners : setLastFrameTime(l)
    \/ \E l \in Listeners : readError(l)
    \/ \E l \in Listeners : close(l)
    \/ \E l \in Listeners : chanDone(l)
    \/ rtplWriter
    \/ rtcplWriter
    \/ \E c \in Clients : clientWriter(c)

Spec == Init /\ [][Next]_vars

\* The session that is a UDP one on the followed path.
UdpClients == {1}
\* The paths and the transports a session asks for in the fan-out.
PathsOf(c) == IF c \in UdpClients THEN FollowedPaths ELSE Paths
ProtocolsOf(c) == IF c \in UdpClients THEN {_STREAM_PROTOCOL_UDP} ELSE Protocols

\* The fan-out alone: a UDP session on the followed path and a session of
\* either transport on either path, one listener of the followed path,
\* forwarding and the writer tasks, in the behaviours in which the clock does
\* not advance, the listener is not closed and every datagram comes from the
\* publisher.
NextForward ==
    \/ \E c \in Clients : Connect(c)
    \/ \E c \in Clients : \E k \in PathsOf(c) : Describe(c, k)
    \/ \E c \in Clients : \E proto \in ProtocolsOf(c) : Setup(c, proto)
    \/ \E c \in Clients : Play(c)
    \/ \E c \in Clients : Teardown(c)
    \/ \E l \in ForwardListeners, k \in FollowedPaths, id \in TrackIds,
          flow \in Flows :
          start(l, k, id, flow)
    \/ \E l \in ForwardListeners, d \in Datagrams(MaxLen) :
          readFromUDP(l, d, PublisherIp, PublisherPort)
    \/ \E l \in ForwardListeners : RLock(l)
    \/ \E l \in ForwardListeners, c \in Clients : forwardTrack(l, c)
    \/ \E l \in ForwardListeners : blockedSend(l)
    \/ \E l \in ForwardListeners : RUnlock(l)
    \/ \E l \in ForwardListeners : setLastFrameTime(l)
    \/ rtplWriter
    \/ rtcplWriter
    \/ \E c \in Clients : clientWriter(c)

SpecForward == Init /\ [][NextForward]_vars

\* The lifecycle alone: sessions, upstream failures, the clock and the
\* supervisor, in the behaviours in which no listener is started and one path is requested.  The transport
\* of a session is not read by the supervisor; the sessions here are TCP ones.
NextSupervisor ==
    \/ \E c \in Clients : Connect(c)
    \/ \E c \in Clients, k \in FollowedPaths : Describe(c, k)
    \/ \E c \in Clients : Setup(c, _STREAM_PROTOCOL_TCP)
    \/ \E c \in Clients : Play(c)
    \/ \E c \in Clients : Teardown(c)
    \/ \E k \in FollowedPaths : UpstreamFail(k)
    \/ \E k \in FollowedPaths : StreamTeardown(k)
    \/ Tick
    \/ SupWake
    \/ SupSweep

SpecSupervisor == Init /\ [][NextSupervisor]_vars

\* The stop signal alone: sessions that request a path of either stream and
\* leave, upstream failures, the clock and the supervisor, in the behaviours
\* in which no session sets up a track.
NextStop ==
    \/ \E c \in Clients : Connect(c)
    \/ \E c \in Clients, k \in Paths : Describe(c, k)
    \/ \E c \in Clients : Teardown(c)
    \/ \E k \in Paths : UpstreamFail(k)
    \/ \E k \in Paths : StreamTeardown(k)
    \/ Tick
    \/ SupWake
    \/ SupSweep

SpecStop == Init /\ [][NextStop]_vars

\* The life of one listener: sessions of the followed path, one listener that
\* reads datagrams of every source, forwards them, fails to read and is closed.
\* A listener reads fewer datagrams than a queue holds, so no send waits here.
NextListener ==
    \/ \E c \in Clients : Connect(c)
    \/ \E c \in Clients, k \in FollowedPaths : Describe(c, k)
    \/ \E c \in Clients : Setup(c, _STREAM_PROTOCOL_TCP)
    \/ \E c \in Clients : Play(c)
    \/ \E c \in Clients : Teardown(c)
    \/ \E l \in ForwardListeners, k \in FollowedPaths : start(l, k, 0, _TRACK_FLOW_RTP)
    \/ \E l \in ForwardListeners, d \in Datagrams(MaxLen), ip \in SrcIps,
          port \in SrcPorts :
          readFromUDP(l, d, ip, port)
    \/ \E l \in ForwardListeners : RLock(l)
    \/ \E l \in ForwardListeners, c \in Clients : forwardTrack(l, c)
    \/ \E l \in ForwardListeners : RUnlock(l)
    \/ \E l \in ForwardListeners : setLastFrameTime(l)
    \/ \E l \in ForwardListeners : readError(l)
    \/ \E l \in ForwardListeners : close(l)
    \/ \E l \in ForwardListeners : chanDone(l)
    \/ \E c \in Clients : clientWriter(c)

SpecListener == Init /\ [][NextListener]_vars

\* The subscriber whose writer task never takes an entry of its queue.
StalledClients == {1}
\* The track a listener serves in the specification of the lock.
TrackOf(l) == IF l = 1 THEN 0 ELSE 1

\* The lock: a TCP subscriber of the followed path whose writer task never
\* runs, an RTP listener per track of the path, and the supervisor, in the
\* behaviours in which every datagram is the same and comes from the publisher.
\* The queue of the subscriber never gets room again, so a send that waits on
\* it waits forever.
NextLock ==
    \/ \E c \in StalledClients : Connect(c)
    \/ \E c \in Clients, k \in FollowedPaths : Describe(c, k)
    \/ \E c \in Clients : Setup(c, _STREAM_PROTOCOL_TCP)
    \/ \E c \in Clients : Play(c)
    \/ \E l \in Listeners, k \in FollowedPaths :
          start(l, k, TrackOf(l), _TRACK_FLOW_RTP)
    \/ \E l \in Listeners : readFromUDP(l, <<170>>, PublisherIp, PublisherPort)
    \/ \E l \in Listeners : RLock(l)
    \/ \E l \in Listeners, c \in Clients : forwardTrack(l, c)
    \/ \E l \in Listeners : RUnlock(l)
    \/ \E l \in Listeners : setLastFrameTime(l)
    \/ Tick
    \/ SupWake
    \/ SupSweep

SpecLock == Init /\ [][NextLock]_vars

\* The flow a listener serves in the specification of the exclusion.
FlowOf(l) == IF l = 1 THEN _TRACK_FLOW_RTP ELSE _TRACK_FLOW_RTCP

\* The exclusion of forwarding and sweep: two TCP sessions of the followed
\* path that come in the first second, set up one track, play and leave, the
\* RTP and the RTCP listener of track 0 of the path, the clock and the
\* supervisor, in the behaviours in which each listener gets one datagram of
\* the publisher and no writer task runs.  A packet has an enqueue for each of
\* the two subscribers; the stream expires once both sessions have left.  Two
\* frames for one client fit its queue, so no send waits.
NextExclusion ==
    \/ \E c \in Clients : now = 0 /\ Connect(c)
    \/ \E c \in Clients, k \in FollowedPaths : Describe(c, k)
    \/ \E c \in Clients :
          clients[c].streamTracks = <<>> /\ Setup(c, _STREAM_PROTOCOL_TCP)
    \/ \E c \in Clients : Play(c)
    \/ \E c \in Clients : Teardown(c)
    \/ \E l \in Listeners, k \in FollowedPaths : start(l, k, 0, FlowOf(l))
    \/ \E l \in Listeners :
          listeners[l].seq = 0 /\ readFromUDP(l, <<170>>, PublisherIp, PublisherPort)
    \/ \E l \in Listeners : RLock(l)
    \/ \E l \in Listeners, c \in Clients : forwardTrack(l, c)
    \/ \E l \in Listeners : RUnlock(l)
    \/ \E l \in Listeners : setLastFrameTime(l)
    \/ Tick
    \/ SupWake
    \/ SupSweep

SpecExclusion == Init /\ [][NextExclusion]_vars

\* The missing binding: a UDP session of the followed path, one listener of a
\* track flow of the path that forwards datagrams of the publisher, fails to
\* read and is closed, and the writer tasks of the endpoints, in the
\* behaviours in which the clock does not advance.  Two datagrams for one
\* client fit the queues, so no send waits.
NextBinding ==
    \/ \E c \in UdpClients : Connect(c)
    \/ \E c \in UdpClients, k \in FollowedPaths : Describe(c, k)
    \/ \E c \in UdpClients : Setup(c, _STREAM_PROTOCOL_UDP)
    \/ \E c \in UdpClients : Play(c)
    \/ \E c \in UdpClients : Teardown(c)
    \/ \E l \in ForwardListeners, k \in FollowedPaths, id \in TrackIds,
          flow \in Flows :
          start(l, k, id, flow)
    \/ \E l \in ForwardListeners : readFromUDP(l, <<170>>, PublisherIp, PublisherPort)
    \/ \E l \in ForwardListeners : RLock(l)
    \/ \E l \in ForwardListeners, c \in Clients : forwardTrack(l, c)
    \/ \E l \in ForwardListeners : RUnlock(l)
    \/ \E l \in ForwardListeners : setLastFrameTime(l)
    \/ \E l \in ForwardListeners : readError(l)
    \/ \E l \in ForwardListeners : close(l)
    \/ \E l \in ForwardListeners : chanDone(l)
    \/ rtplWriter
    \/ rtcplWriter

SpecBinding == Init /\ [][NextBinding]_vars

\* The bootstrap alone: main calls newProgram for every environment and
\* command line.
NextBoot ==
    \/ kingpinParse
    \/ newProgram

SpecBoot == InitBoot /\ [][NextBoot]_vars

\* ================================================================ claims
\* The entries of the two endpoint queues and of the client queues.
UdpEntries ==
    {rtplChan[i] : i \in 1..Len(rtplChan)} \cup {rtcplChan[i] : i \in 1..Len(rtcplChan)}
TcpEntries == UNION {{cliChan[c][i] : i \in 1..Len(cliChan[c])} : c \in Clients}

\* The bytes an entry hands to its writer are the bytes that were read.
Intact(x) ==
    /\ x.n = Min(Len(x.orig), BufSize)
    /\ SubSeq(heap[x.buf], 1, x.n) = SubSeq(x.orig, 1, x.n)

\* Entries of one listener for one destination stand in the order of arrival.
InOrder(q, sameDest(_, _)) ==
    \A i, j \in 1..Len(q) :
        (i < j /\ q[i].src = q[j].src /\ sameDest(q[i], q[j])) => q[i].seq < q[j].seq
SameAddr(x, y) == x.ip = y.ip /\ x.port = y.port
SameChannel(x, y) == x.channel = y.channel

\* An entry of listener l belongs to a datagram l has read, and to the one it
\* is forwarding only while l is inside forwardTrack or has just left it.
NotAhead(x) ==
    /\ x.seq <= listeners[x.src].seq
    /\ listeners[x.src].pc = "rlock" => x.seq < listeners[x.src].seq

\* A step that is one sweep of the supervisor (it ends normally or in a panic).
SweepStep == sup = "locking" /\ (sup' = "idle" \/ panicked')

\* C1: forwardTrack never blocks while the fan-out lock is held: no listener
\* waits on a send to a full writer queue while it holds p.mutex for reading.
C1_NoBlockedSendUnderLock ==
    \A l \in Listeners : ~(l \in readers /\ listeners[l].pc = "send")

\* C2: forward fidelity.  Every entry of a writer queue holds exactly the n
\* bytes that were read for it, with n the length of the datagram (at most the
\* buffer size), and stays so while later datagrams are read: no read
\* overwrites a payload that is already enqueued.
C2_ForwardFidelity ==
    /\ \A x \in UdpEntries : Intact(x)
    /\ \A x \in TcpEntries : Intact(x)
    /\ \A l \in Listeners :
          listeners[l].pc # "read" =>
             /\ listeners[l].n = Min(Len(listeners[l].dgram), BufSize)
             /\ SubSeq(heap[listeners[l].buf], 1, listeners[l].n)
                   = SubSeq(listeners[l].dgram, 1, listeners[l].n)

\* C2 witness: a payload is still enqueued while its listener holds a later
\* datagram with other bytes.
C2_Witness ==
    \E l \in Listeners :
        /\ listeners[l].pc # "read"
        /\ \E x \in UdpEntries \cup TcpEntries :
              x.src = l /\ x.seq < listeners[l].seq /\ x.orig # listeners[l].dgram

\* C3: forwardTrack(path, id, flow, frame) enqueues the frame once for every
\* client it has visited that is on the path and in PLAY, and never for a
\* client on another path or in another state; when the loop is through, the
\* clients that got the frame are exactly the subscribers of the path.
C3_ExactlyTheSubscribers ==
    \A l \in Listeners :
        listeners[l].pc \in {"fwd", "send"} =>
            \A c \in Clients :
                listeners[l].sent[c] =
                    IF /\ c \in Connected
                       /\ c \notin listeners[l].todo
                       /\ clients[c].path = listeners[l].path
                       /\ clients[c].state = _CLIENT_STATE_PLAY
                    THEN 1 ELSE 0

\* C3 witness: the loop is through, one client got the frame and another
\* connected client, in PLAY on another path, did not.
C3_Witness ==
    \E l \in Listeners, c, d \in Clients :
        /\ listeners[l].pc = "fwd" /\ listeners[l].todo = {}
        /\ listeners[l].sent[c] = 1
        /\ listeners[l].sent[d] = 0
        /\ clients[d].state = _CLIENT_STATE_PLAY
        /\ clients[d].path # listeners[l].path

\* C4: every forwarded packet uses the transport of the client it is for.  A
\* step that hands a frame of listener l to client c appends, for a UDP
\* client, one entry to the queue of the endpoint of l's flow, addressed to
\* the client's ip and to the rtpPort (RTP) or rtcpPort (RTCP) of the binding
\* it has for l's track, and leaves every other queue alone; for a TCP client it
\* appends one interleaved frame to that client's own queue and leaves every
\* other queue alone.  An endpoint queue grows by no other step.
C4_ChosenTransport ==
    [][/\ \A l \in Listeners, c \in Clients :
             listeners'[l].sent[c] > listeners[l].sent[c] =>
                LET id == listeners[l].trackId
                    flow == listeners[l].flow
                    binding == Binding(c, id)
                IN  IF clients[c].streamProtocol = _STREAM_PROTOCOL_UDP
                    THEN /\ cliChan' = cliChan
                         /\ IF flow = _TRACK_FLOW_RTP
                            THEN /\ rtcplChan' = rtcplChan
                                 /\ Len(rtplChan') = Len(rtplChan) + 1
                                 /\ SubSeq(rtplChan', 1, Len(rtplChan)) = rtplChan
                                 /\ rtplChan'[Len(rtplChan')].ip = ClientIp(c)
                                 /\ HasTrack(c, id) =>
                                       rtplChan'[Len(rtplChan')].port = binding.rtpPort
                                 /\ rtplChan'[Len(rtplChan')].orig = listeners[l].dgram
                            ELSE /\ rtplChan' = rtplChan
                                 /\ Len(rtcplChan') = Len(rtcplChan) + 1
                                 /\ SubSeq(rtcplChan', 1, Len(rtcplChan)) = rtcplChan
                                 /\ rtcplChan'[Len(rtcplChan')].ip = ClientIp(c)
                                 /\ HasTrack(c, id) =>
                                       rtcplChan'[Len(rtcplChan')].port = binding.rtcpPort
                                 /\ rtcplChan'[Len(rtcplChan')].orig = listeners[l].dgram
                    ELSE /\ rtplChan' = rtplChan
                         /\ rtcplChan' = rtcplChan
                         /\ \A d \in Clients \ {c} : cliChan'[d] = cliChan[d]
                         /\ Len(cliChan'[c]) = Len(cliChan[c]) + 1
                         /\ SubSeq(cliChan'[c], 1, Len(cliChan[c])) = cliChan[c]
                         /\ cliChan'[c][Len(cliChan'[c])].channel =
                               2 * id + (IF flow = _TRACK_FLOW_RTCP THEN 1 ELSE 0)
                         /\ cliChan'[c][Len(cliChan'[c])].orig = listeners[l].dgram
       /\ (Len(rtplChan') > Len(rtplChan) \/ Len(rtcplChan') > Len(rtcplChan)) =>
             \E l \in Listeners, c \in Clients :
                /\ listeners'[l].sent[c] > listeners[l].sent[c]
                /\ clients[c].streamProtocol = _STREAM_PROTOCOL_UDP
       /\ \A c \in Clients :
             Len(cliChan'[c]) > Len(cliChan[c]) =>
                /\ clients[c].streamProtocol = _STREAM_PROTOCOL_TCP
                /\ \E l \in Listeners : listeners'[l].sent[c] > listeners[l].sent[c]
      ]_vars

\* C4 witness: a mixed fan-out of an RTCP packet of track 1: the RTCP endpoint
\* holds an entry for a UDP client's rtcpPort of track 1 while a TCP client's
\* queue holds the same packet as an interleaved frame on channel 3.
C4_Witness ==
    \E c, d \in Clients :
        /\ clients[c].state = _CLIENT_STATE_PLAY
        /\ clients[c].streamProtocol = _STREAM_PROTOCOL_UDP
        /\ Len(clients[c].streamTracks) = 2
        /\ \E i \in 1..Len(rtcplChan) :
              /\ rtcplChan[i].ip = ClientIp(c)
              /\ rtcplChan[i].port = clients[c].streamTracks[2].rtcpPort
        /\ \E i \in 1..Len(cliChan[d]) : cliChan[d][i].channel = 3

\* C10: per track, flow and subscriber, the entries of one listener stand in
\* every writer queue in the order in which the listener read them, and the
\* listener has handed a datagram to all subscribers before it reads the next.
C10_ArrivalOrder ==
    /\ InOrder(rtplChan, SameAddr)
    /\ InOrder(rtcplChan, SameAddr)
    /\ \A c \in Clients : InOrder(cliChan[c], SameChannel)
    /\ \A x \in UdpEntries : NotAhead(x)
    /\ \A x \in TcpEntries : NotAhead(x)

\* C10 witness: a writer queue holds two packets of one listener for one
\* destination, the first read before the second.
C10_Witness ==
    \/ /\ Len(rtplChan) = 2
       /\ rtplChan[1].src = rtplChan[2].src
       /\ SameAddr(rtplChan[1], rtplChan[2])
       /\ rtplChan[1].seq = 1 /\ rtplChan[2].seq = 2
    \/ \E c \in Clients :
          /\ Len(cliChan[c]) = 2
          /\ cliChan[c][1].src = cliChan[c][2].src
          /\ cliChan[c][1].seq = 1 /\ cliChan[c][2].seq = 2

\* The most recent moment a client was attached to path k: now while one is,
\* otherwise the moment the last one left (the creation of the stream at first).
LastAttached(k) == IF ClientsOn(k) # {} THEN now ELSE streams[k].lastClient

\* The sweep stop-signals the stream of path k or takes it out of the map.
Retired(k) ==
    /\ streams[k].exists
    /\ ~streams'[k].exists \/ streams'[k].stop # streams[k].stop

\* C5: a path with continuous subscribers never expires.  At every sweep, for
\* every stream TTL of at least one second, the stream of a path that has a
\* client in p.clients is neither stop-signalled nor deleted from p.streams.
C5_AttachedPathKept ==
    [][SweepStep => \A k \in Paths : ClientsOn(k) # {} => streams'[k] = streams[k]]_vars

\* C5 witness: a sweep has just stamped a path that has a client, and the
\* stream of the path is older than the TTL.
C5_Witness ==
    \E k \in Paths :
        /\ streams[k].exists
        /\ ClientsOn(k) # {}
        /\ sup = "idle" /\ ~tickPending
        /\ streamsClientLastTime[k] = now
        /\ now - streams[k].created > conf.StreamTTL

\* C6: a stream that has had no subscriber (no client in PLAY on its path)
\* for at least the stream TTL is removed from p.streams by the sweep,
\* whatever clients are connected in other states.
C6_IdleStreamRemoved ==
    [][SweepStep =>
          \A k \in Paths :
             (/\ streams[k].exists
              /\ PlayingOn(k) = {}
              /\ now - streams[k].idleSince >= conf.StreamTTL)
                => ~streams'[k].exists]_vars

\* C7: after every sweep, every stream of p.streams has
\* now - max(lastSeen[path], creationTime) < streamTTL or has its stop
\* signalled; also a stream whose only client came and went between two ticks.
C7_FreshOrStopped ==
    [][SweepStep =>
          \A k \in Paths :
             streams'[k].exists =>
                \/ now - Max(streamsClientLastTime'[k], streams'[k].created)
                      < conf.StreamTTL
                \/ streams'[k].stop # "open"]_vars

\* C8: the supervisor never stops a stream earlier than the stream TTL after
\* the most recent moment a client was attached to its path, to within the
\* period of the ticker.
C8_NoEarlyStop ==
    [][SweepStep =>
          \A k \in Paths :
             Retired(k) => now - LastAttached(k) >= conf.StreamTTL - TickPeriod]_vars

\* C9: stream stop is idempotent: a stop signalled again on a stream whose
\* stop was already signalled has the effect of the first one and never fails.
C9_StopNeverFails ==
    /\ ~panicked
    /\ \A k \in Paths : streams[k].stop # "panic"

\* A protocol string that is a list of one or more of the words udp and tcp,
\* with one separator between two words.
WellFormedList(s) ==
    /\ s # <<>>
    /\ s[1] # "," /\ s[Len(s)] # ","
    /\ \A i \in 1..Len(s) : s[i] \in {"udp", "tcp", ","}
    /\ \A i \in 1..(Len(s) - 1) : (s[i] = ",") # (s[i + 1] = ",")

\* The configurations the bootstrap has to refuse.
Malformed(p) ==
    \/ p.rtpPort % 2 # 0
    \/ p.rtcpPort # p.rtpPort + 1
    \/ ~WellFormedList(p.protocolsStr)
    \/ p.streamReadyTimeout < 1
    \/ p.streamTTL < 1

\* C11: the bootstrap accepts a configuration only if it is well formed.
\* newProgram returns an error when the RTP port is odd, the RTCP port is not
\* the RTP port plus one, the protocol list is empty or names something else
\* than udp and tcp, or a timeout is below one second; a program that runs has
\* an even RTP port, the RTCP port next to it, a non-empty set of protocols
\* within {udp, tcp} and both timeouts of at least one second.
C11_WellFormedOnly ==
    /\ (boot.pc \in {"running", "error"} /\ Malformed(boot.parsed))
          => boot.pc = "error"
    /\ boot.pc = "running" =>
          /\ conf.RtpPort % 2 = 0
          /\ conf.RtcpPort = conf.RtpPort + 1
          /\ boot.protocols # {}
          /\ boot.protocols \subseteq Protocols
          /\ conf.StreamReadyTimeout >= 1
          /\ conf.StreamTTL >= 1

\* C11 witness: newProgram has refused a configuration whose RTP port is even
\* and set, and whose RTCP port is another one than the RTP port plus one.
C11_Witness ==
    /\ boot.pc = "error"
    /\ boot.err = "rtcp port must be rtp port plus 1"
    /\ boot.parsed.rtcpPort > boot.parsed.rtpPort + 1

\* The value a flag must get when the command line is empty: the one of its
\* own environment variable when that is set, its default otherwise.
OwnValue(envar, default) == IF envar # <<>> THEN envar[1] ELSE default

\* C12: with no command-line flags, each of PROTOCOLS, RTSP_PORT, RTP_PORT and
\* RTCP_PORT sets the value of its own flag and of no other one: RTCP_PORT
\* alone gives the RTCP port and RTP_PORT alone gives the RTP port.
C12_EnvOverridesOwnFlag ==
    (boot.pc # "args" /\ boot.flags = NoFlags) =>
        /\ boot.parsed.protocolsStr =
              (IF boot.env.PROTOCOLS # <<>> THEN boot.env.PROTOCOLS
               ELSE DefaultProtocols)
        /\ boot.parsed.rtspPort = OwnValue(boot.env.RTSP_PORT, DefaultRtspPort)
        /\ boot.parsed.rtpPort = OwnValue(boot.env.RTP_PORT, DefaultRtpPort)
        /\ boot.parsed.rtcpPort = OwnValue(boot.env.RTCP_PORT, DefaultRtcpPort)

\* C14: when the supervisor retires a stream, the stop is signalled first and
\* the entry of p.streams and the entry of the lastSeen table are deleted
\* after it in the same write-locked step.  A sweep leaves every stream it
\* has retired out of the map, stop-signalled and without lastSeen entry, and
\* leaves the others as they were, also when it dies in the close of a later
\* entry; no step takes a stream out of the map whose stop is not signalled.
C14_StopBeforeDelete ==
    [][/\ SweepStep =>
             \A k \in Paths :
                (streams'[k] # streams[k] /\ streams'[k].stop # "panic") =>
                   /\ streams[k].exists /\ streams[k].stop = "open"
                   /\ ~streams'[k].exists
                   /\ streams'[k].stop = "closed"
                   /\ streamsClientLastTime'[k] = NoTime
       /\ \A k \in Paths :
             (streams[k].exists /\ ~streams'[k].exists) => streams'[k].stop = "closed"
      ]_vars

\* C14 witness: a sweep has retired a stream: the stream object is out of the
\* map with its stop signalled, and the path has no lastSeen entry any more.
C14_Witness ==
    \E k \in Paths :
        /\ ~streams[k].exists
        /\ streams[k].created # NoTime
        /\ streams[k].stop = "closed"
        /\ streamsClientLastTime[k] = NoTime
        /\ sup = "idle"

\* C15: a datagram whose source is not the publisher's ip and port has no
\* effect: the step that reads it changes no writer queue, forwards nothing,
\* takes no lock and leaves lastFrameTime alone; a listener is inside
\* forwarding only with a datagram of the publisher, and lastFrameTime changes
\* only when such a datagram has been forwarded to the end and the lock is
\* released.
C15_StrangerIgnored ==
    [][\A l \in Listeners :
          /\ (/\ listeners'[l].seq > listeners[l].seq
              /\ listeners'[l].addr # <<PublisherIp, PublisherPort>>)
                => /\ rtplChan' = rtplChan
                   /\ rtcplChan' = rtcplChan
                   /\ cliChan' = cliChan
                   /\ readers' = readers
                   /\ listeners'[l].pc = "read"
                   /\ listeners'[l].sent = listeners[l].sent
                   /\ listeners'[l].lastFrameTime = listeners[l].lastFrameTime
          /\ listeners'[l].pc \in {"rlock", "fwd", "send", "unwind", "stamp"}
                => listeners'[l].addr = <<PublisherIp, PublisherPort>>
          /\ listeners'[l].lastFrameTime # listeners[l].lastFrameTime
                => /\ listeners[l].pc = "stamp"
                   /\ listeners[l].todo = {}
                   /\ l \notin readers
                   /\ listeners[l].addr = <<PublisherIp, PublisherPort>>
      ]_vars

\* C15 witness: a listener whose path has a subscriber has read a datagram
\* that came from the publisher's ip and another port; it is back in its read
\* and lastFrameTime was never set.
C15_Witness ==
    \E l \in Listeners :
        /\ listeners[l].pc = "read"
        /\ listeners[l].seq >= 1
        /\ listeners[l].addr = <<PublisherIp, PublisherPort + 2>>
        /\ PlayingOn(listeners[l].path) # {}
        /\ listeners[l].lastFrameTime = NoTime

\* C17: every call of close() on a stream UDP listener returns, with the
\* socket closed and the run task ended.  In particular no call of close()
\* waits on chanDone of a listener whose run task has already ended, since
\* nothing will ever send on that channel again.
C17_CloseReturns ==
    \A l \in Listeners :
        ~(listeners[l].closeWait > 0 /\ listeners[l].pc = "exited")

\* C18: whenever forwardTrack is about to forward a packet of track id to a
\* UDP client in PLAY on the path, the client has a binding for that track.
C18_BindingPresent ==
    \A l \in Listeners, c \in Clients :
        (/\ listeners[l].pc = "fwd"
         /\ c \in listeners[l].todo
         /\ Subscribed(c, listeners[l].path)
         /\ clients[c].streamProtocol = _STREAM_PROTOCOL_UDP)
            => HasTrack(c, listeners[l].trackId)

\* C19: once a call of close() on a started listener has returned, the run
\* task of the listener has left its loop: it holds and takes p.mutex no more,
\* forwards nothing and does not write lastFrameTime; a call of close() on a
\* listener that was never started closes the socket and does not wait on
\* chanDone.
C19_ClosedListenerQuiet ==
    [][\A l \in Listeners :
          /\ listeners'[l].closeRunning - listeners'[l].closeWait > 0
                => listeners'[l].pc = "exited" /\ l \notin readers'
          /\ listeners[l].closeRunning - listeners[l].closeWait > 0
                => /\ listeners'[l].pc = listeners[l].pc
                   /\ listeners'[l].sent = listeners[l].sent
                   /\ listeners'[l].seq = listeners[l].seq
                   /\ listeners'[l].lastFrameTime = listeners[l].lastFrameTime
          /\ (/\ listeners'[l].closeCalls > listeners[l].closeCalls
              /\ listeners[l].state = _UDPL_STATE_STARTING)
                => /\ listeners'[l].closeWait = listeners[l].closeWait
                   /\ listeners'[l].nconn = "closed"
      ]_vars

\* C19 witness: a listener that had forwarded a packet was closed, and the
\* call of close() has returned after the run task ended.
C19_Witness ==
    \E l \in Listeners :
        /\ listeners[l].closeRunning = 1
        /\ listeners[l].closeWait = 0
        /\ listeners[l].pc = "exited"
        /\ listeners[l].lastFrameTime # NoTime

\* Listener l holds the read lock in a send to the queue of a subscriber whose
\* writer never runs, while the supervisor waits for the write lock and
\* another listener, with a datagram in hand, waits for the read lock behind it.
Starved(l) ==
    /\ l \in readers
    /\ listeners[l].pc = "send"
    /\ listeners[l].cur \in StalledClients
    /\ sup = "locking"
    /\ \E o \in Listeners \ {l} : listeners[o].pc = "rlock"

\* C13: tasks cannot starve one another through the shared lock.  A
\* subscriber whose writer queue is never drained never keeps the supervisor
\* from completing its sweep nor another listener from forwarding: the
\* supervisor and a forwarder never wait on p.mutex behind a listener that is
\* parked in a send to that queue.
C13_NoLockStarvation == \A l \in Listeners : ~Starved(l)

\* C16: forwarding and the sweep exclude each other.  A listener is inside
\* forwardTrack only while it holds the read lock; a sweep changes p.streams
\* and the lastSeen table only while no listener holds it; from the moment a
\* listener has taken the lock for a packet until it has released it, no step
\* changes p.streams or the lastSeen table and no sweep completes.
C16_ForwardExcludesSweep ==
    [][/\ SweepStep => (readers = {} /\ readers' = {})
       /\ \A l \in Listeners :
             /\ listeners'[l].pc \in {"fwd", "send", "unwind"} <=> l \in readers'
             /\ (\E c \in Clients : listeners'[l].sent[c] > listeners[l].sent[c])
                   => l \in readers
             /\ l \in readers =>
                   /\ streams' = streams
                   /\ streamsClientLastTime' = streamsClientLastTime
                   /\ ~SweepStep
      ]_vars

\* C16 witness: two listeners forward at the same time, one of them is
\* between the first and the last enqueue of its packet (it has enqueued the
\* packet for one subscriber and has another subscriber to go), and the
\* supervisor waits for the lock.
C16_Witness ==
    /\ Cardinality(readers) = 2
    /\ sup = "locking"
    /\ \E l \in readers, c, d \in Clients :
          /\ c # d
          /\ listeners[l].sent[c] = 1
          /\ d \in listeners[l].todo
          /\ Subscribed(d, listeners[l].path)

====
